---- MODULE Spec2Model ----
(***************************************************************************)
(* Model of src/provisioning/ProvisioningService.js: the webhook           *)
(* provisioning service of matrix-appservice-webhooks.                     *)
(*                                                                         *)
(* The service holds one bound intent (_intent) and a fixed permission     *)
(* error message.  createWebhook, getWebhooks and deleteWebhook each call  *)
(* hasPermission, which reads the room's m.room.power_levels state event   *)
(* through the bound intent, and then either call the WebhookStore or      *)
(* reject with the permission error message.  Calls are promise chains:    *)
(* the power-level read and the store call are the points where other      *)
(* calls, a rebinding of the intent or a change of the room's power levels *)
(* can interleave.                                                         *)
(***************************************************************************)
EXTENDS Integers, Sequences, FiniteSets, TLC

\* ------------------------------------------------------------------ bounds

\* Calls issued over a run (the service itself puts no limit on them).
MaxCalls == 2

\* ------------------------------------------------------------- input sets

\* Call contexts (promise chains that can be in flight at the same time), in
\* the order new calls take them.  The sequential specification uses the
\* first, the concurrent one both.
Contexts == <<"c1", "c2">>
OneContext == {Contexts[1]}
TwoContexts == {Contexts[1], Contexts[2]}

Rooms == {"!room"}
Users == {"@user"}
HookIds == {1, 2}
Ops == {"createWebhook", "getWebhooks", "deleteWebhook"}
\* hasPermission is a public method too and can be called on its own.
Methods == Ops \cup {"hasPermission"}

\* Intents that setClient accepts, and one whose getClient() lookup throws.
Handles == {"A", "B"}
BadHandles == {"bad"}
NoIntent == "none"

\* An optional integer: <<>> is JavaScript's undefined, <<n>> the number n.
Absent == <<>>
Some(n) == <<n>>
Levels == {-1, 0, 1}
OptLevels == {Absent} \cup {Some(n) : n \in Levels}

\* The content of a room's m.room.power_levels state event; exists = FALSE
\* is a room without that event (getStateEvent resolves to nothing).
NoPowerLevels ==
    [exists |-> FALSE, users |-> [u \in Users |-> Absent],
     users_default |-> Absent, state_default |-> Absent]
Snapshots ==
    {NoPowerLevels} \cup
    [exists : {TRUE}, users : [Users -> OptLevels],
     users_default : OptLevels, state_default : OptLevels]

\* The snapshots the concurrent specification ranges over: no power-level
\* state, and rooms in which the user is unlisted (level 0) or has level 1
\* and state_default is missing or 1.
TypicalSnapshots ==
    {NoPowerLevels} \cup
    [exists : {TRUE}, users : [Users -> {Absent, Some(1)}],
     users_default : {Absent}, state_default : {Absent, Some(1)}]

\* ------------------------------------------------------------------ values

\* What a promise settles with.  One record shape for every value, so that
\* any two can be compared.
Value(tag, id, list, msg) == [tag |-> tag, id |-> id, list |-> list, msg |-> msg]
Undefined == Value("undefined", 0, {}, "")
ReaderError == Value("error", 0, {}, "reader: M_FORBIDDEN")
StoreError == Value("error", 0, {}, "store: database failure")
Message(m) == Value("string", 0, {}, m)
WebhookValue(id) == Value("webhook", id, {}, "")
ListValue(ids) == Value("list", 0, ids, "")
DeletedValue(found) == Value("deleted", IF found THEN 1 ELSE 0, {}, "")

Pending == [state |-> "pending", value |-> Undefined]
Resolved(v) == [state |-> "resolved", value |-> v]
Rejected(v) == [state |-> "rejected", value |-> v]

\* ------------------------------------------------------------------- state

VARIABLES
    _intent,                   \* this._intent
    PERMISSION_ERROR_MESSAGE,  \* this.PERMISSION_ERROR_MESSAGE
    powerLevels,               \* room -> its current power-level state
    hooks,                     \* WebhookStore: the persisted webhooks
    nextId,                    \* WebhookStore: the next identifier to mint
    calls,                     \* call context -> the call in flight
    ncalls,                    \* calls issued so far
    lastBound,                 \* history: the intent of the last setClient that returned
    rebound,                   \* history: a setClient has replaced a different bound intent
    threw                      \* history: "threw" once the last setClient has thrown,
                               \* "checked" once a call was issued after that, else "no"

vars == <<_intent, PERMISSION_ERROR_MESSAGE, powerLevels, hooks, nextId, calls, ncalls,
          lastBound, rebound, threw>>

\* A call context.  pc is the position of the promise chain:
\*   idle     no call in this context
\*   reading  hasPermission waits for getStateEvent (line 69)
\*   checked  hasPermission's promise has settled, the .then handlers of the
\*            operation (lines 29, 41, 54) have not run yet
\*   storing  the WebhookStore call is in progress
\*   done     the promise returned to the caller has settled
\* via is the intent a pending read was issued through, reads the number of
\* getStateEvent calls of the call, storeCalls its WebhookStore calls, cause the branch of hasPermission that settled perm,
\* and ref what the documented fallback chain says of the snapshot read.
Idle ==
    [pc |-> "idle", op |-> "none", roomId |-> "", userId |-> "", hookId |-> 0,
     via |-> NoIntent, reads |-> 0, perm |-> Pending, cause |-> "none",
     ref |-> "none", storeCalls |-> <<>>, storeResult |-> Pending,
     outcome |-> Pending]

\* The text the constructor stores (line 8).
FixedMessage == "User does not have permission to manage webhooks in this room"

\* The state after the module is loaded (line 96): the constructor sets
\* the message and leaves _intent undefined.  The rooms are in any state.
InitOver(contexts, snapshots) ==
    /\ _intent = NoIntent
    /\ PERMISSION_ERROR_MESSAGE = FixedMessage
    /\ powerLevels \in [Rooms -> snapshots]
    /\ hooks = {}
    /\ nextId = 1
    /\ calls = [c \in contexts |-> Idle]
    /\ ncalls = 0
    /\ lastBound = NoIntent
    /\ rebound = FALSE
    /\ threw = "no"

Init == InitOver(OneContext, Snapshots)
InitConcurrent == InitOver(TwoContexts, TypicalSnapshots)

Calls == DOMAIN calls

\* -------------------------------------------------------------- setClient

\* Mutant of CanReadAccount: the log line is gone, or comes after the
\* assignment; any handle is stored.
CanReadAccountAlways(intent) == TRUE

\* intent.getClient().credentials.userId (line 16) can be read.
CanReadAccount(intent) == intent \in Handles

\* Mutant of BoundIntent: a bound intent is kept, the first binding wins.
BoundIntentFirstWins(old, intent) == IF old = NoIntent THEN intent ELSE old

\* The value of this._intent after setClient(intent) returns (line 17).
BoundIntent(old, intent) == intent

\* setClient(intent): the log line reads the account first and throws for
\* an intent it cannot be read from, before the assignment.
SetClient(intent) ==
    /\ IF CanReadAccount(intent)
       THEN /\ _intent' = BoundIntent(_intent, intent)
            /\ lastBound' = intent
            /\ rebound' = (rebound \/ (lastBound # NoIntent /\ lastBound # intent))
            /\ threw' = "no"
       ELSE /\ threw' = "threw"
            /\ UNCHANGED <<_intent, lastBound, rebound>>
    /\ UNCHANGED <<PERMISSION_ERROR_MESSAGE, powerLevels, hooks, nextId, calls, ncalls>>

\* ---------------------------------------------------------- hasPermission

\* JavaScript's truthiness of a power level: !undefined and !0 are true.
Truthy(v) == v # Absent /\ v # Some(0)

\* Mutant of IntentMissing: the guard of line 65 is left out.
IntentNeverMissing(intent) == FALSE

\* if (!this._intent) (line 65).
IntentMissing(intent) == intent = NoIntent

\* if (!powerLevels) (line 70).
PowerLevelsMissing(pl) == ~pl.exists

\* powerLevel after lines 75-79.
UserPowerLevel(pl, userId) ==
    LET userPowerLevels == pl.users
        explicit == userPowerLevels[userId]
        fromDefault == IF Truthy(explicit) THEN explicit ELSE pl.users_default
    IN  IF Truthy(fromDefault) THEN fromDefault[1] ELSE 0

\* if (!statePowerLevel) (line 82).
StateDefaultMissing(pl) == ~Truthy(pl.state_default)

\* Mutant of MissingStateDefaultResult: a missing state_default lets the
\* check pass.
MissingStateDefaultAllowed == Resolved(Undefined)

\* What hasPermission's promise settles with on a missing state_default
\* (line 84).
MissingStateDefaultResult == Rejected(Undefined)

\* statePowerLevel <= powerLevel (line 87).
HasPermission(pl, userId) == pl.state_default[1] <= UserPowerLevel(pl, userId)

\* The callback of getStateEvent(...).then (lines 69-92) on the value the
\* read resolved to: the settlement of hasPermission's promise and the
\* branch taken.
PermissionCheck(pl, userId) ==
    IF PowerLevelsMissing(pl)
    THEN [perm |-> Rejected(Undefined), cause |-> "noPowerLevels"]
    ELSE IF StateDefaultMissing(pl)
    THEN [perm |-> MissingStateDefaultResult, cause |-> "noStateDefault"]
    ELSE IF HasPermission(pl, userId)
    THEN [perm |-> Resolved(Undefined), cause |-> "permitted"]
    ELSE [perm |-> Rejected(Undefined), cause |-> "tooLow"]

\* The documented fallback chain (explicit per-user level, else
\* users_default, else 0) and the verdict it gives on a snapshot; kept with
\* each call as a record of what the call read.
RefLevel(pl, userId) ==
    IF pl.users[userId] # Absent THEN pl.users[userId][1]
    ELSE IF pl.users_default # Absent THEN pl.users_default[1]
    ELSE 0
RefVerdict(pl, userId) ==
    IF ~pl.exists THEN "noPowerLevels"
    ELSE IF pl.state_default = Absent THEN "noStateDefault"
    ELSE IF RefLevel(pl, userId) >= pl.state_default[1] THEN "permit"
    ELSE "deny"

\* ------------------------------------------------------ the three operations

\* Mutant of OnFulfilledRuns: the store call is made however the check
\* settled (.finally in place of .then).
OnSettledRuns(perm) == perm.state # "pending"

\* The first handler of .then (lines 29, 41, 54) runs when hasPermission's
\* promise is fulfilled, the second when it is rejected.
OnFulfilledRuns(perm) == perm.state = "resolved"

\* Mutant of OnRejected: the reason hasPermission rejected with is passed
\* on to the caller.
OnRejectedPassesReason(reason, message) == Rejected(reason)

\* The second handler: () => Promise.reject(this.PERMISSION_ERROR_MESSAGE).
OnRejected(reason, message) == Rejected(Message(message))

\* Mutant of StoreCall: deleteWebhook passes no hookId on to the store.
StoreCallDropsHookId(call) ==
    IF call.op = "createWebhook"
    THEN [fn |-> "createWebhook", roomId |-> call.roomId, userId |-> call.userId, hookId |-> 0]
    ELSE IF call.op = "getWebhooks"
    THEN [fn |-> "listWebhooks", roomId |-> call.roomId, userId |-> "", hookId |-> 0]
    ELSE [fn |-> "deleteWebhook", roomId |-> call.roomId, userId |-> "", hookId |-> 0]

\* The WebhookStore function the first handler calls, with its arguments.
StoreCall(call) ==
    IF call.op = "createWebhook"
    THEN [fn |-> "createWebhook", roomId |-> call.roomId, userId |-> call.userId, hookId |-> 0]
    ELSE IF call.op = "getWebhooks"
    THEN [fn |-> "listWebhooks", roomId |-> call.roomId, userId |-> "", hookId |-> 0]
    ELSE [fn |-> "deleteWebhook", roomId |-> call.roomId, userId |-> "", hookId |-> call.hookId]

\* Mutant of Adopt: the chain is wrapped in a promise that is never settled
\* on the store's path.
AdoptNeverSettles(storeResult, message) == Pending

\* Mutant of Adopt: the rejection handler is chained after the store call
\* (.then(f).catch(g)) and replaces the store's error too.
AdoptThenCatch(storeResult, message) ==
    IF storeResult.state = "rejected" THEN Rejected(Message(message)) ELSE storeResult

\* The promise returned by .then(onFulfilled, onRejected) takes the
\* settlement of the promise onFulfilled returned: the second handler does
\* not see it.
Adopt(storeResult, message) == storeResult

\* A new call uses the first free context.
FirstFree(c) ==
    LET free == {i \in 1..Len(Contexts) : Contexts[i] \in Calls /\ calls[Contexts[i]].pc = "idle"}
    IN  /\ free # {}
        /\ \E i \in free : Contexts[i] = c /\ \A j \in free : i <= j

\* A caller invokes createWebhook, getWebhooks, deleteWebhook or
\* hasPermission.  hasPermission runs synchronously up to its first return:
\* without an intent it returns a rejected promise (line 67), otherwise it
\* issues the getStateEvent read through the bound intent (line 69).
Call(c, op, roomId, userId, hookId) ==
    /\ ncalls < MaxCalls
    /\ FirstFree(c)
    /\ ncalls' = ncalls + 1
    /\ LET started == [Idle EXCEPT !.op = op, !.roomId = roomId,
                                   !.userId = userId, !.hookId = hookId]
           rejected == Rejected(Undefined)
       IN  calls' = [calls EXCEPT ![c] =
             IF IntentMissing(_intent)
             THEN IF op = "hasPermission"
                  THEN [started EXCEPT !.pc = "done", !.perm = rejected,
                                       !.cause = "noIntent", !.outcome = rejected]
                  ELSE [started EXCEPT !.pc = "checked", !.perm = rejected,
                                       !.cause = "noIntent"]
             ELSE [started EXCEPT !.pc = "reading", !.via = _intent, !.reads = 1]]
    /\ threw' = IF threw = "no" THEN "no" ELSE "checked"
    /\ UNCHANGED <<_intent, PERMISSION_ERROR_MESSAGE, powerLevels, hooks, nextId, lastBound, rebound>>

\* Mutant of Settle: listing is let through whatever the check says.
SettleListAlwaysAllowed(call, result, cause, ref) ==
    [call EXCEPT !.pc = "checked", !.via = NoIntent,
                 !.perm = IF call.op = "getWebhooks" THEN Resolved(Undefined) ELSE result,
                 !.cause = cause, !.ref = ref, !.outcome = Pending]

\* hasPermission's promise settles with `result`; a direct caller of
\* hasPermission holds that very promise.
Settle(call, result, cause, ref) ==
    [call EXCEPT !.pc = IF call.op = "hasPermission" THEN "done" ELSE "checked",
                 !.via = NoIntent, !.perm = result, !.cause = cause, !.ref = ref,
                 !.outcome = IF call.op = "hasPermission" THEN result ELSE Pending]

\* Mutant of GetStateEventResolves: a grant is remembered; a user who was
\* let through before and owns a webhook of the room is let through again
\* whatever the snapshot says.
GetStateEventResolvesRemembersGrant(c) ==
    /\ calls[c].pc = "reading"
    /\ LET call == calls[c]
           pl == powerLevels[call.roomId]
           check == PermissionCheck(pl, call.userId)
           granted == \E h \in hooks : h.roomId = call.roomId /\ h.userId = call.userId
       IN  calls' = [calls EXCEPT ![c] =
             IF granted
             THEN Settle(call, Resolved(Undefined), "permitted", RefVerdict(pl, call.userId))
             ELSE Settle(call, check.perm, check.cause, RefVerdict(pl, call.userId))]
    /\ UNCHANGED <<_intent, PERMISSION_ERROR_MESSAGE, powerLevels, hooks, nextId, ncalls, lastBound, rebound, threw>>

\* getStateEvent resolves with the room's current power-level state and the
\* callback of lines 69-92 runs on it.
GetStateEventResolves(c) ==
    /\ calls[c].pc = "reading"
    /\ LET call == calls[c]
           pl == powerLevels[call.roomId]
           check == PermissionCheck(pl, call.userId)
       IN  calls' = [calls EXCEPT ![c] =
             Settle(call, check.perm, check.cause, RefVerdict(pl, call.userId))]
    /\ UNCHANGED <<_intent, PERMISSION_ERROR_MESSAGE, powerLevels, hooks, nextId, ncalls, lastBound, rebound, threw>>

\* getStateEvent rejects (the request to the homeserver fails): the callback
\* does not run and hasPermission's promise rejects with the reader's error.
GetStateEventRejects(c) ==
    /\ calls[c].pc = "reading"
    /\ calls' = [calls EXCEPT ![c] =
          Settle(calls[c], Rejected(ReaderError), "readerError", "none")]
    /\ UNCHANGED <<_intent, PERMISSION_ERROR_MESSAGE, powerLevels, hooks, nextId, ncalls, lastBound, rebound, threw>>

\* Mutant of ThenHandlers: the fulfilment handler looks at the room's power
\* levels again and calls the store only if they still permit.
ThenHandlersRecheck(c) ==
    /\ calls[c].pc = "checked"
    /\ LET call == calls[c]
           again == PermissionCheck(powerLevels[call.roomId], call.userId)
       IN  calls' = [calls EXCEPT ![c] =
             IF OnFulfilledRuns(call.perm) /\ again.perm.state = "resolved"
             THEN [call EXCEPT !.pc = "storing",
                               !.storeCalls = Append(call.storeCalls, StoreCall(call))]
             ELSE [call EXCEPT !.pc = "done",
                               !.outcome = OnRejected(call.perm.value, PERMISSION_ERROR_MESSAGE)]]
    /\ UNCHANGED <<_intent, PERMISSION_ERROR_MESSAGE, powerLevels, hooks, nextId, ncalls, lastBound, rebound, threw>>

\* Mutant of ThenHandlers: a per-room guard refuses an operation while
\* another call for the same room is at the store.
ThenHandlersExclusive(c) ==
    /\ calls[c].pc = "checked"
    /\ LET call == calls[c]
           busy == \E d \in Calls \ {c} :
                      calls[d].pc = "storing" /\ calls[d].roomId = call.roomId
       IN  calls' = [calls EXCEPT ![c] =
             IF OnFulfilledRuns(call.perm) /\ ~busy
             THEN [call EXCEPT !.pc = "storing",
                               !.storeCalls = Append(call.storeCalls, StoreCall(call))]
             ELSE [call EXCEPT !.pc = "done",
                               !.outcome = OnRejected(call.perm.value, PERMISSION_ERROR_MESSAGE)]]
    /\ UNCHANGED <<_intent, PERMISSION_ERROR_MESSAGE, powerLevels, hooks, nextId, ncalls, lastBound, rebound, threw>>

\* The .then handlers of the operation run (lines 29, 41, 54): the first
\* calls the WebhookStore, the second rejects with the permission message.
ThenHandlers(c) ==
    /\ calls[c].pc = "checked"
    /\ LET call == calls[c]
       IN  calls' = [calls EXCEPT ![c] =
             IF OnFulfilledRuns(call.perm)
             THEN [call EXCEPT !.pc = "storing",
                               !.storeCalls = Append(call.storeCalls, StoreCall(call))]
             ELSE [call EXCEPT !.pc = "done",
                               !.outcome = OnRejected(call.perm.value, PERMISSION_ERROR_MESSAGE)]]
    /\ UNCHANGED <<_intent, PERMISSION_ERROR_MESSAGE, powerLevels, hooks, nextId, ncalls, lastBound, rebound, threw>>

\* ------------------------------------------------------------ WebhookStore

\* The store after a successful call and the value the call resolves to.
\* createWebhook mints a fresh identifier and persists the webhook,
\* listWebhooks returns the room's webhooks, deleteWebhook removes the
\* webhook with that identifier in that room, if there is one.
StoreApply(sc, hs, next) ==
    IF sc.fn = "createWebhook"
    THEN [hooks |-> hs \cup {[id |-> next, roomId |-> sc.roomId, userId |-> sc.userId]},
          nextId |-> next + 1,
          result |-> Resolved(WebhookValue(next))]
    ELSE IF sc.fn = "listWebhooks"
    THEN [hooks |-> hs, nextId |-> next,
          result |-> Resolved(ListValue({h.id : h \in {x \in hs : x.roomId = sc.roomId}}))]
    ELSE LET found == {h \in hs : h.id = sc.hookId /\ h.roomId = sc.roomId}
         IN  [hooks |-> hs \ found, nextId |-> next,
              result |-> Resolved(DeletedValue(found # {}))]

\* The WebhookStore call of c succeeds.
StoreResolves(c) ==
    /\ calls[c].pc = "storing"
    /\ LET call == calls[c]
           done == StoreApply(call.storeCalls[Len(call.storeCalls)], hooks, nextId)
       IN  /\ hooks' = done.hooks
           /\ nextId' = done.nextId
           /\ calls' = [calls EXCEPT ![c] =
                 [call EXCEPT !.pc = "done", !.storeResult = done.result,
                              !.outcome = Adopt(done.result, PERMISSION_ERROR_MESSAGE)]]
    /\ UNCHANGED <<_intent, PERMISSION_ERROR_MESSAGE, powerLevels, ncalls, lastBound, rebound, threw>>

\* The WebhookStore call of c fails and leaves the store as it was.
StoreRejects(c) ==
    /\ calls[c].pc = "storing"
    /\ calls' = [calls EXCEPT ![c] =
          [calls[c] EXCEPT !.pc = "done", !.storeResult = Rejected(StoreError),
                           !.outcome = Adopt(Rejected(StoreError), PERMISSION_ERROR_MESSAGE)]]
    /\ UNCHANGED <<_intent, PERMISSION_ERROR_MESSAGE, powerLevels, hooks, nextId, ncalls, lastBound, rebound, threw>>

\* The caller has taken the outcome; the context is free for another call.
Return(c) ==
    /\ calls[c].pc = "done"
    /\ calls' = [calls EXCEPT ![c] = Idle]
    /\ UNCHANGED <<_intent, PERMISSION_ERROR_MESSAGE, powerLevels, hooks, nextId, ncalls, lastBound, rebound, threw>>

\* ------------------------------------------------------------- environment

\* The number of places in which two power-level states differ.
Differences(p, q) ==
    Cardinality({u \in Users : p.users[u] # q.users[u]})
    + (IF p.users_default # q.users_default THEN 1 ELSE 0)
    + (IF p.state_default # q.state_default THEN 1 ELSE 0)

\* The room's power levels change: the state event appears (empty or with
\* one entry), disappears, or one of its entries changes.  Any state is
\* reached by a few such changes with no step of the service in between.
SetPowerLevels(roomId, pl) ==
    /\ powerLevels[roomId] # pl
    /\ powerLevels[roomId].exists /\ pl.exists => Differences(powerLevels[roomId], pl) = 1
    /\ ~powerLevels[roomId].exists => Differences(NoPowerLevels, pl) <= 1
    /\ powerLevels' = [powerLevels EXCEPT ![roomId] = pl]
    /\ UNCHANGED <<_intent, PERMISSION_ERROR_MESSAGE, hooks, nextId, calls, ncalls, lastBound, rebound, threw>>

\* ------------------------------------------------------------ specification

NextOver(intents, methods, snapshots) ==
    \/ \E intent \in intents : SetClient(intent)
    \/ \E c \in Calls, op \in methods, roomId \in Rooms, userId \in Users :
          \E hookId \in IF op = "deleteWebhook" THEN HookIds ELSE {0} :
             Call(c, op, roomId, userId, hookId)
    \/ \E c \in Calls : GetStateEventResolves(c)
    \/ \E c \in Calls : GetStateEventRejects(c)
    \/ \E c \in Calls : ThenHandlers(c)
    \/ \E c \in Calls : StoreResolves(c)
    \/ \E c \in Calls : StoreRejects(c)
    \/ \E c \in Calls : Return(c)
    \/ \E roomId \in Rooms, pl \in snapshots : SetPowerLevels(roomId, pl)

\* One call at a time, over every power-level state and both intents.
Next == NextOver(Handles \cup BadHandles, Methods, Snapshots)
Spec == Init /\ [][Next]_vars

\* Two calls in flight at the same time, over the typical power-level
\* states and one intent.
NextConcurrent == NextOver({"A"} \cup BadHandles, Ops, TypicalSnapshots)
SpecConcurrent == InitConcurrent /\ [][NextConcurrent]_vars

\* The promise callbacks of a call run once they are due (the event loop
\* runs every queued callback), and, as C16 supposes, the getStateEvent and
\* WebhookStore calls that were issued settle.
Fairness ==
    \A c \in TwoContexts :
        /\ WF_vars(GetStateEventResolves(c) \/ GetStateEventRejects(c))
        /\ WF_vars(ThenHandlers(c))
        /\ WF_vars(StoreResolves(c) \/ StoreRejects(c))
SpecLive == InitConcurrent /\ [][NextConcurrent]_vars /\ Fairness

\* ------------------------------------------------------------------ claims

\* The rejection a caller gets when authorization fails.
PermissionRejection == Rejected(Message(FixedMessage))

\* C1: with a session bound, a call of createWebhook, getWebhooks or
\* deleteWebhook whose power-level read returned a snapshot in which the
\* user's effective level (explicit level, else users_default, else 0) is
\* strictly below state_default never calls the WebhookStore and ends
\* rejected with the fixed permission-error message.
C1_BelowStateDefaultIsRejected ==
    \A c \in Calls :
        calls[c].op \in Ops /\ calls[c].ref = "deny" =>
            /\ calls[c].storeCalls = <<>>
            /\ calls[c].pc \in {"checked", "done"}
            /\ calls[c].pc = "done" => calls[c].outcome = PermissionRejection

\* C2: with a session bound, a call of one of the three operations whose
\* read returned a snapshot that contains state_default and in which the
\* user's effective level is at least state_default (state_default = 0 with
\* a user at the fallback level 0 included) passes authorization, calls the
\* WebhookStore, and succeeds whenever the store call succeeds.
C2_AtOrAboveStateDefaultIsPermitted ==
    \A c \in Calls :
        calls[c].op \in Ops /\ calls[c].ref = "permit" =>
            /\ calls[c].perm.state = "resolved"
            /\ calls[c].pc = "done" =>
                  /\ Len(calls[c].storeCalls) = 1
                  /\ calls[c].storeResult.state = "resolved" =>
                        calls[c].outcome = calls[c].storeResult

\* C3: whenever a power-level read resolves with a snapshot, the level that
\* hasPermission compares against state_default is the one of the reference
\* fallback chain (the explicit entry of a listed user whatever its value,
\* else users_default, else 0), and, state_default being there, the check
\* permits iff that level is at least state_default.
C3_EffectiveLevelIsReferenceChain ==
    [][\A c \in Calls :
        calls[c].pc = "reading" /\ calls'[c].pc # "reading"
        /\ calls'[c].cause # "readerError" /\ powerLevels[calls[c].roomId].exists =>
            LET pl == powerLevels[calls[c].roomId]
                userId == calls[c].userId
            IN  /\ UserPowerLevel(pl, userId) = RefLevel(pl, userId)
                /\ pl.state_default # Absent =>
                      (calls'[c].perm.state = "resolved"
                         <=> RefLevel(pl, userId) >= pl.state_default[1])]_vars

\* C4: while no intent has ever been bound with setClient, every call of
\* createWebhook, getWebhooks, deleteWebhook or hasPermission rejects
\* without any getStateEvent read and without any WebhookStore call.
C4_NoSessionRejectsUntouched ==
    lastBound = NoIntent =>
        \A c \in Calls :
            calls[c].pc # "idle" =>
                /\ calls[c].reads = 0
                /\ calls[c].via = NoIntent
                /\ calls[c].storeCalls = <<>>
                /\ calls[c].pc \in {"checked", "done"}
                /\ calls[c].perm.state = "rejected"
                /\ calls[c].pc = "done" => calls[c].outcome.state = "rejected"

\* C4 witness: an operation has ended rejected and hasPermission was called
\* before it, with no intent ever bound.
C4_Witness ==
    /\ lastBound = NoIntent
    /\ ncalls = 2
    /\ \E c \in Calls :
          /\ calls[c].op = "deleteWebhook"
          /\ calls[c].pc = "done"
          /\ calls[c].outcome.state = "rejected"

\* C5: a call whose read returned no power-level state, or a snapshot that
\* lacks state_default, rejects and never calls the WebhookStore.
C5_MissingDataIsRejected ==
    \A c \in Calls :
        calls[c].ref \in {"noPowerLevels", "noStateDefault"} =>
            /\ calls[c].perm.state = "rejected"
            /\ calls[c].storeCalls = <<>>
            /\ calls[c].pc \in {"checked", "done"}
            /\ calls[c].pc = "done" => calls[c].outcome.state = "rejected"

\* C5 witness: an operation has ended on a snapshot that lacks
\* state_default.
C5_Witness ==
    \E c \in Calls :
        /\ calls[c].op \in Ops
        /\ calls[c].ref = "noStateDefault"
        /\ calls[c].pc = "done"

\* C6: when the WebhookStore call of an operation fails, the caller's
\* promise is rejected with exactly the store's error, never with the
\* permission-error message.
C6_StoreErrorUnchanged ==
    \A c \in Calls :
        calls[c].storeResult.state = "rejected" =>
            /\ calls[c].pc = "done"
            /\ calls[c].outcome = calls[c].storeResult
            /\ calls[c].outcome # PermissionRejection

\* C6 witness: authorization succeeded and the store call failed.
C6_Witness ==
    \E c \in Calls :
        /\ calls[c].pc = "done"
        /\ calls[c].cause = "permitted"
        /\ calls[c].storeResult = Rejected(StoreError)

\* The branches of hasPermission that end in an authorization failure.
AuthFailures == {"noIntent", "noPowerLevels", "noStateDefault", "tooLow"}

\* C7: whatever branch of hasPermission failed the authorization (no
\* intent, no power-level state, no state_default, level too low), the
\* caller of an operation gets the same rejection, the fixed permission
\* message, and never the value hasPermission rejected with; any two calls
\* that failed authorization have equal outcomes.
C7_AuthFailuresIndistinguishable ==
    \A c \in Calls, d \in Calls :
        /\ calls[c].op \in Ops /\ calls[c].pc = "done" /\ calls[c].cause \in AuthFailures
        /\ calls[d].op \in Ops /\ calls[d].pc = "done" /\ calls[d].cause \in AuthFailures
        => /\ calls[c].outcome = calls[d].outcome
           /\ calls[c].outcome = PermissionRejection
           /\ calls[c].outcome.value # calls[c].perm.value

\* C7 witness: two calls have ended, one for a missing state_default and
\* one for a level that is too low.
C7_Witness ==
    \E c \in Calls, d \in Calls :
        /\ calls[c].pc = "done" /\ calls[c].cause = "noStateDefault"
        /\ calls[d].pc = "done" /\ calls[d].cause = "tooLow"

\* C8 as stated: every outcome of an operation is the store's success
\* value, the permission rejection, or the store's or the reader's error,
\* and when the power-level read fails the caller's rejection carries the
\* reader's error.
C8_ReaderErrorReachesCaller ==
    \A c \in Calls :
        calls[c].op \in Ops /\ calls[c].pc = "done" =>
            /\ \/ calls[c].outcome.state = "resolved" /\ calls[c].outcome = calls[c].storeResult
               \/ calls[c].outcome = PermissionRejection
               \/ calls[c].outcome = Rejected(StoreError)
               \/ calls[c].outcome = Rejected(ReaderError)
            /\ calls[c].cause = "readerError" => calls[c].outcome = Rejected(ReaderError)

\* C8 amended: every outcome of an operation is the store's success value,
\* the permission rejection, or the store's error; when the power-level
\* read fails, the caller's rejection carries the fixed permission message,
\* not the reader's error, and the store is not called.
C8_ReaderErrorBecomesPermissionError ==
    \A c \in Calls :
        calls[c].op \in Ops /\ calls[c].pc = "done" =>
            /\ \/ calls[c].outcome.state = "resolved" /\ calls[c].outcome = calls[c].storeResult
               \/ calls[c].outcome = PermissionRejection
               \/ calls[c].outcome = Rejected(StoreError) /\ calls[c].storeResult = Rejected(StoreError)
            /\ calls[c].cause = "readerError" =>
                  /\ calls[c].outcome = PermissionRejection
                  /\ calls[c].storeCalls = <<>>

\* C8 witness: an operation has ended after its power-level read failed.
C8_Witness ==
    \E c \in Calls :
        /\ calls[c].op \in Ops
        /\ calls[c].pc = "done"
        /\ calls[c].cause = "readerError"
        /\ calls[c].perm = Rejected(ReaderError)

\* C9: in every interleaving of two calls, a call has made a WebhookStore
\* call only after its own hasPermission promise was fulfilled (its own
\* read, its own permit), never while its check is pending or after it
\* failed, and it makes at most one store call.
C9_StoreOnlyAfterOwnPermit ==
    \A c \in Calls :
        /\ Len(calls[c].storeCalls) <= 1
        /\ calls[c].pc \in {"storing"} => Len(calls[c].storeCalls) = 1
        /\ calls[c].storeCalls # <<>> =>
              /\ calls[c].perm = Resolved(Undefined)
              /\ calls[c].cause = "permitted"
              /\ calls[c].reads = 1
              /\ calls[c].pc \in {"storing", "done"}

\* C9 witness: one call is at the store after its own permit while the
\* other, checked after the levels changed, was refused and has made no
\* store call.
C9_Witness ==
    \E c \in Calls, d \in Calls :
        /\ calls[c].pc = "storing" /\ calls[c].storeCalls # <<>>
        /\ calls[d].pc = "checked" /\ calls[d].perm.state = "rejected"
        /\ calls[d].cause = "tooLow" /\ calls[d].storeCalls = <<>>

\* C10: a call that starts its power-level read does so through the intent
\* of the last setClient call that returned; after setClient(A) and then
\* setClient(B) that is B, never A.
C10_ReadsThroughLastBound ==
    [][\A c \in Calls :
        calls[c].pc = "idle" /\ calls'[c].pc # "idle" /\ lastBound # NoIntent =>
            /\ calls'[c].pc = "reading"
            /\ calls'[c].via = lastBound
            /\ calls'[c].reads = 1]_vars

\* C10 witness: after a rebinding from another intent to B, a call is
\* reading through B.
C10_Witness ==
    /\ rebound
    /\ lastBound = "B"
    /\ \E c \in Calls : calls[c].pc = "reading" /\ calls[c].via = "B"

\* C11: a deleteWebhook(roomId, userId, hookId) whose check passed calls
\* the store's deleteWebhook exactly once, with (roomId, hookId), whether or
\* not the store holds that webhook, and the caller's outcome is the
\* settlement of that store call, unchanged.
C11_DeleteDelegatesToStore ==
    \A c \in Calls :
        calls[c].op = "deleteWebhook" /\ calls[c].cause = "permitted" =>
            /\ calls[c].pc \in {"checked", "storing", "done"}
            /\ calls[c].pc = "checked" => calls[c].storeCalls = <<>>
            /\ calls[c].pc \in {"storing", "done"} =>
                  calls[c].storeCalls =
                      <<[fn |-> "deleteWebhook", roomId |-> calls[c].roomId,
                         userId |-> "", hookId |-> calls[c].hookId]>>
            /\ calls[c].pc = "done" =>
                  /\ calls[c].storeResult.state # "pending"
                  /\ calls[c].outcome = calls[c].storeResult

\* C11 witness: an authorized deleteWebhook of an identifier the store does
\* not hold has ended with the store's answer for it.
C11_Witness ==
    \E c \in Calls :
        /\ calls[c].op = "deleteWebhook"
        /\ calls[c].pc = "done"
        /\ calls[c].hookId \notin {h.id : h \in hooks}
        /\ hooks # {}
        /\ Len(calls[c].storeCalls) = 1
        /\ calls[c].outcome = Resolved(DeletedValue(FALSE))

\* C12: between a check that passed and the store's change nothing looks
\* at the power levels again: whatever they are by then, the next step of a
\* call whose check passed is its store call, and the step after that the
\* settlement of that store call, with no further read.  So a call goes on
\* to change the store after the levels have dropped below state_default.
C12_CheckThenActNotAtomic ==
    [][\A c \in Calls :
        /\ calls[c].op \in Ops /\ calls[c].perm.state = "resolved"
        /\ calls[c].pc \in {"checked", "storing"}
        /\ calls'[c] # calls[c]
        => /\ calls'[c].reads = calls[c].reads
           /\ calls'[c].perm = calls[c].perm
           /\ calls[c].pc = "checked" =>
                 calls'[c].pc = "storing" /\ Len(calls'[c].storeCalls) = 1
           /\ calls[c].pc = "storing" =>
                 /\ calls'[c].pc = "done"
                 /\ calls'[c].outcome = calls'[c].storeResult
                 /\ calls'[c].storeResult.state = "resolved" =>
                       hooks' = StoreApply(calls[c].storeCalls[1], hooks, nextId).hooks]_vars

\* C12 witness: a createWebhook or deleteWebhook passed its check, the
\* room's levels now put the user below state_default (for the code's level
\* and for the documented one), and the store call has been made and is
\* about to change the store.
C12_Witness ==
    \E c \in Calls :
        /\ calls[c].op \in {"createWebhook", "deleteWebhook"}
        /\ calls[c].pc = "storing"
        /\ calls[c].ref = "permit"
        /\ calls[c].reads = 1
        /\ PermissionCheck(powerLevels[calls[c].roomId], calls[c].userId).cause = "tooLow"
        /\ RefVerdict(powerLevels[calls[c].roomId], calls[c].userId) = "deny"

\* C13: in every interleaving of two calls, a createWebhook whose check
\* passed calls the store's createWebhook, whatever the other call is doing
\* (another createWebhook for the same room at the store included), and its
\* outcome is the store's; two createWebhook calls that both succeeded got
\* two different webhooks.
C13_ConcurrentCreatesBothGoThrough ==
    /\ \A c \in Calls :
          calls[c].op = "createWebhook" /\ calls[c].cause = "permitted" =>
              /\ calls[c].pc \in {"checked", "storing", "done"}
              /\ calls[c].pc \in {"storing", "done"} =>
                    calls[c].storeCalls =
                        <<[fn |-> "createWebhook", roomId |-> calls[c].roomId,
                           userId |-> calls[c].userId, hookId |-> 0]>>
              /\ calls[c].pc = "done" => calls[c].outcome = calls[c].storeResult
    /\ \A c \in Calls : \A d \in Calls \ {c} :
          /\ calls[c].op = "createWebhook" /\ calls[c].outcome.state = "resolved"
          /\ calls[d].op = "createWebhook" /\ calls[d].outcome.state = "resolved"
          => /\ calls[c].outcome.value.tag = "webhook"
             /\ calls[c].outcome.value.id # calls[d].outcome.value.id

\* C13 witness: two createWebhook calls for the same room overlapped (the
\* call that started second got the first identifier), both succeeded and
\* the store holds both webhooks.
C13_Witness ==
    /\ calls[Contexts[1]].op = "createWebhook"
    /\ calls[Contexts[2]].op = "createWebhook"
    /\ calls[Contexts[1]].roomId = calls[Contexts[2]].roomId
    /\ calls[Contexts[1]].outcome = Resolved(WebhookValue(2))
    /\ calls[Contexts[2]].outcome = Resolved(WebhookValue(1))
    /\ {h.id : h \in hooks} = {1, 2}

\* C14: every call of an operation made with an intent bound issues one
\* getStateEvent read of its own, no step of the call adds another, and
\* when the read resolves the check settles as the callback does on the
\* room's power levels of that moment: nothing of earlier calls enters.
C14_FreshReadDecides ==
    [][\A c \in Calls :
        /\ calls[c].pc = "idle" /\ calls'[c].pc # "idle" /\ _intent # NoIntent =>
              /\ calls'[c].pc = "reading"
              /\ calls'[c].reads = 1
              /\ calls'[c].perm = Pending
        /\ calls[c].pc # "idle" /\ calls'[c].pc # "idle" =>
              calls'[c].reads = calls[c].reads
        /\ calls[c].pc = "reading" /\ calls'[c].pc # "reading"
           /\ calls'[c].cause # "readerError" =>
              LET now == PermissionCheck(powerLevels[calls[c].roomId], calls[c].userId)
              IN  /\ calls'[c].perm = now.perm
                  /\ calls'[c].cause = now.cause]_vars

\* C14 witness: an earlier createWebhook of the user was permitted and
\* stored a webhook; the levels changed, and the user's next call, with one
\* read of its own, is refused.
C14_Witness ==
    /\ ncalls = 2
    /\ \E c \in Calls :
          /\ calls[c].op \in Ops
          /\ calls[c].reads = 1
          /\ calls[c].cause = "tooLow"
          /\ calls[c].pc = "done"
          /\ calls[c].outcome = PermissionRejection
          /\ \E h \in hooks : h.roomId = calls[c].roomId /\ h.userId = calls[c].userId

\* A call that is not, or not yet, authorized: a direct hasPermission call,
\* or an operation whose check is pending or has failed.
Unauthorized(call) ==
    call.pc # "idle" /\ (call.op = "hasPermission" \/ call.perm.state # "resolved")

\* C15: no step of a hasPermission call, and no step of an operation whose
\* check is pending or has failed, changes the bound intent, the permission
\* message or the WebhookStore.
C15_CheckLeavesStateAlone ==
    [][\A c \in Calls :
        calls'[c] # calls[c] /\ (Unauthorized(calls[c]) \/ Unauthorized(calls'[c])) =>
            /\ _intent' = _intent
            /\ PERMISSION_ERROR_MESSAGE' = PERMISSION_ERROR_MESSAGE
            /\ hooks' = hooks
            /\ nextId' = nextId]_vars

\* C15 witness: a deleteWebhook was refused; the webhook it named is still
\* in the store, the intent is still bound and the message is the fixed
\* one.
C15_Witness ==
    \E c \in Calls :
        /\ calls[c].op = "deleteWebhook"
        /\ calls[c].pc = "done"
        /\ calls[c].cause \in AuthFailures
        /\ calls[c].outcome = PermissionRejection
        /\ calls[c].hookId \in {h.id : h \in hooks}
        /\ _intent \in Handles
        /\ PERMISSION_ERROR_MESSAGE = FixedMessage

\* C16: if the getStateEvent and WebhookStore calls that are issued settle,
\* every call of an operation settles, and it settles once (its outcome
\* stays until the caller has taken it).  While the getStateEvent call has
\* not settled the operation is pending and has made no store call, and
\* nothing but the settlement of that read moves it: no timeout.
C16_SettlesOnceIfCollaboratorsSettle ==
    /\ \A c \in TwoContexts :
          (calls[c].pc # "idle") ~> (calls[c].outcome.state # "pending")
    /\ [][\A c \in Calls :
            calls[c].outcome.state # "pending" =>
                calls'[c].outcome = calls[c].outcome \/ calls'[c] = Idle]_vars
    /\ [](\A c \in TwoContexts :
            calls[c].pc = "reading" =>
                /\ calls[c].outcome = Pending
                /\ calls[c].perm = Pending
                /\ calls[c].storeCalls = <<>>)
    /\ [][\A c \in Calls :
            calls[c].pc = "reading" /\ calls'[c] # calls[c] =>
                GetStateEventResolves(c) \/ GetStateEventRejects(c)]_vars

\* C16 witness: the call that started first still waits for its read,
\* pending and without a store call, while the call that started after it
\* has settled.
C16_Witness ==
    /\ calls[Contexts[1]].pc = "reading"
    /\ calls[Contexts[1]].outcome = Pending
    /\ calls[Contexts[2]].pc = "done"
    /\ calls[Contexts[2]].outcome.state = "resolved"

\* C17: setClient binds all or nothing.  this._intent is always the intent
\* of the last setClient that returned, never one the account could not be
\* read from; a setClient that throws leaves the binding as it was; and a
\* call issued after the throw reads through the earlier binding, or is
\* rejected without a read if there was none.
C17_FailedSetClientKeepsBinding ==
    /\ [](_intent = lastBound /\ _intent \in Handles \cup {NoIntent})
    /\ [][threw' = "threw" => _intent' = _intent /\ lastBound' = lastBound]_vars
    /\ [][\A c \in Calls :
            calls[c].pc = "idle" /\ calls'[c].pc # "idle" /\ threw # "no" =>
                IF lastBound = NoIntent
                THEN calls'[c].cause = "noIntent" /\ calls'[c].reads = 0
                ELSE calls'[c].via = lastBound /\ calls'[c].reads = 1]_vars

\* C17 witness: "A" was bound, a later setClient threw, and the only call
\* so far, issued after the throw, went through on the binding to "A".
C17_Witness ==
    /\ threw = "checked"
    /\ ncalls = 1
    /\ _intent = "A"
    /\ \E c \in Calls :
          /\ calls[c].pc = "done"
          /\ calls[c].cause = "permitted"
          /\ calls[c].outcome.state = "resolved"

\* The check of the call has settled.
Checked(call) == call.pc \in {"checked", "storing", "done"}

\* C18: the decision does not depend on the operation, the webhook
\* identifier or the store.  Two calls for the same user and room whose
\* reads stand alike (the documented chain gives the same verdict on both
\* snapshots, or neither call got a snapshot) were both let through or
\* both refused.
C18_DecisionIgnoresOperation ==
    \A c \in Calls : \A d \in Calls \ {c} :
        /\ Checked(calls[c]) /\ Checked(calls[d])
        /\ calls[c].userId = calls[d].userId
        /\ calls[c].roomId = calls[d].roomId
        /\ calls[c].ref = calls[d].ref
        => calls[c].perm.state = calls[d].perm.state

\* C18 witness: a createWebhook and a deleteWebhook naming a webhook the
\* store does not hold were both let through on alike snapshots, the store
\* being non-empty.
C18_Witness ==
    \E c \in Calls : \E d \in Calls \ {c} :
        /\ calls[c].op = "createWebhook" /\ calls[c].pc = "done"
        /\ calls[d].op = "deleteWebhook" /\ Checked(calls[d])
        /\ calls[d].hookId \notin {h.id : h \in hooks}
        /\ hooks # {}
        /\ calls[c].ref = "permit" /\ calls[d].ref = "permit"
        /\ calls[c].perm.state = "resolved" /\ calls[d].perm.state = "resolved"

====
